---- MODULE Spec2Model ----
(***************************************************************************)
(* Model of ClientPullCertificateManagement                                *)
(* (node-opcua-server-configuration/source/clientTools/                    *)
(*  pull_certificate_management_client.ts).                                *)
(*                                                                         *)
(* One caller drives one client object.  Each of the four asynchronous     *)
(* methods is an action that builds the CallMethodRequestLike and hands it *)
(* to session.call (the single await), followed by a continuation action   *)
(* that interprets the settled promise.  The session is the environment:   *)
(* it fulfils the promise with any CallMethodResult or rejects it.         *)
(***************************************************************************)
EXTENDS Integers, Sequences, FiniteSets, TLC

VARIABLES pc, op, args, methodToCall, sessionCalls, promise, result

vars == <<pc, op, args, methodToCall, sessionCalls, promise, result>>

(***************************************************************************)
(* Bounds of the model.                                                    *)
(***************************************************************************)
\* longest outputArguments array the session answers with
MaxOutputs == 2

(***************************************************************************)
(* JavaScript values, tagged by their runtime type.                        *)
(***************************************************************************)
undefined == [t |-> "undefined", v |-> 0]
null == [t |-> "null", v |-> 0]
Str(s) == [t |-> "string", v |-> s]
Bool(b) == [t |-> "boolean", v |-> b]
Buf(bytes) == [t |-> "Buffer", v |-> bytes]
Arr(items) == [t |-> "Array", v |-> items]
NodeIdOf(n) == [t |-> "NodeId", v |-> n]

\* JavaScript ToBoolean, as used by `x ? a : b`, `!x`, `!!x` and `a && b`
Truthy(x) ==
    ~ \/ x.t \in {"undefined", "null"}
      \/ (x.t = "string" /\ x.v = "")
      \/ (x.t = "boolean" /\ x.v = FALSE)

(***************************************************************************)
(* Fixed node identifiers (numeric part of "i=...").                       *)
(***************************************************************************)
serverConfigurationNodeId == 12637
createSigningRequestMethod == 12737
getRejectedListMethod == 12777
updateCertificateMethod == 13737
defaultApplicationGroup == 14156
applyChangesMethod == 12740
rsaSha256ApplicationCertificateType == 12560

(***************************************************************************)
(* Status codes and variants.                                              *)
(***************************************************************************)
Good == "Good"
BadInvalidArgument == "BadInvalidArgument"
BadInternalError == "BadInternalError"
BadUserAccessDenied == "BadUserAccessDenied"

\* a VariantLike object literal; a literal without arrayType is a scalar
VariantLike(dataType, arrayType, value) ==
    [arrayType |-> arrayType, dataType |-> dataType, value |-> value]

(***************************************************************************)
(* Completion of a method of the client, as the caller sees it.            *)
(***************************************************************************)
NoResult ==
    [kind |-> "none", statusCode |-> "", hasField |-> FALSE,
     field |-> undefined, error |-> ""]

\* return { statusCode }      (also: return statusCode, for applyChanges)
ReturnStatus(statusCode) ==
    [kind |-> "return", statusCode |-> statusCode, hasField |-> FALSE,
     field |-> undefined, error |-> ""]

\* return { <typed field>: value, statusCode }
ReturnRecord(statusCode, value) ==
    [kind |-> "return", statusCode |-> statusCode, hasField |-> TRUE,
     field |-> value, error |-> ""]

\* return <identifier>
ReturnValue(value) ==
    [kind |-> "return", statusCode |-> "", hasField |-> TRUE,
     field |-> value, error |-> ""]

\* the promise returned to the caller rejects with the error
Throw(error) ==
    [kind |-> "throw", statusCode |-> "", hasField |-> FALSE,
     field |-> undefined, error |-> error]

\* outputArguments![0].<property> can be read: outputArguments is an array
\* and has an element at index 0; otherwise the read raises a TypeError
HasFirst(outputArguments) ==
    /\ outputArguments.t = "Array"
    /\ Len(outputArguments.v) >= 1

First(outputArguments) == outputArguments.v[1]

(***************************************************************************)
(* Invocation builders: the methodToCall object of each method.            *)
(***************************************************************************)
\* variant of the builder that passes regeneratePrivateKey through unconverted
createSigningRequest_inputArguments_raw(certificateGroupId, certificateTypeId, subjectName, regeneratePrivateKey, nonce) ==
    << VariantLike("NodeId", "Scalar", certificateGroupId),
       VariantLike("NodeId", "Scalar", certificateTypeId),
       VariantLike("String", "Scalar", subjectName),
       VariantLike("Boolean", "Scalar", regeneratePrivateKey),
       VariantLike(IF Truthy(nonce) THEN "ByteString" ELSE "Null", "Scalar", nonce) >>

createSigningRequest_inputArguments(certificateGroupId, certificateTypeId, subjectName, regeneratePrivateKey, nonce) ==
    << VariantLike("NodeId", "Scalar", certificateGroupId),
       VariantLike("NodeId", "Scalar", certificateTypeId),
       VariantLike("String", "Scalar", subjectName),
       VariantLike("Boolean", "Scalar", Bool(Truthy(regeneratePrivateKey))),
       VariantLike(IF Truthy(nonce) THEN "ByteString" ELSE "Null", "Scalar", nonce) >>

updateCertificate_inputArguments(certificateGroupId, certificateTypeId, certificate, issuerCertificates, privateKeyFormat, privateKey) ==
    << VariantLike("NodeId", "Scalar", certificateGroupId),
       VariantLike("NodeId", "Scalar", certificateTypeId),
       VariantLike("ByteString", "Scalar", certificate),
       VariantLike("ByteString", "Array", issuerCertificates),
       IF Truthy(privateKeyFormat)
          THEN VariantLike("String", "Scalar", privateKeyFormat)
          ELSE VariantLike("Null", "Scalar", undefined),
       IF Truthy(privateKeyFormat)
          THEN VariantLike("ByteString", "Scalar", privateKey)
          ELSE VariantLike("Null", "Scalar", undefined) >>

getRejectedList_inputArguments == << >>

applyChanges_inputArguments == << >>

CallMethodRequestLike(inputArguments, methodId, objectId) ==
    [inputArguments |-> inputArguments, methodId |-> methodId, objectId |-> objectId]

NoMethodToCall == CallMethodRequestLike(<< >>, 0, 0)

(***************************************************************************)
(* Result interpreters: what each method does with the callMethodResult    *)
(* the session's promise was fulfilled with.                               *)
(***************************************************************************)
\* variant of the interpreter that reads the output value before the status
createSigningRequest_result_eager(callMethodResult) ==
    IF ~HasFirst(callMethodResult.outputArguments)
    THEN Throw("TypeError")
    ELSE IF callMethodResult.statusCode = Good
         THEN ReturnRecord(callMethodResult.statusCode,
                           First(callMethodResult.outputArguments).value)
         ELSE ReturnStatus(callMethodResult.statusCode)

createSigningRequest_result(callMethodResult) ==
    IF callMethodResult.statusCode = Good
    THEN IF HasFirst(callMethodResult.outputArguments)
         THEN ReturnRecord(callMethodResult.statusCode,
                           First(callMethodResult.outputArguments).value)
         ELSE Throw("TypeError")
    ELSE ReturnStatus(callMethodResult.statusCode)

\* variant of the interpreter that keeps the output value whatever the status
getRejectedList_result_anyStatus(callMethodResult) ==
    IF /\ HasFirst(callMethodResult.outputArguments)
       /\ First(callMethodResult.outputArguments).dataType = "ByteString"
    THEN ReturnRecord(callMethodResult.statusCode,
                      First(callMethodResult.outputArguments).value)
    ELSE IF callMethodResult.statusCode = Good
         THEN ReturnStatus(BadInvalidArgument)
         ELSE ReturnStatus(callMethodResult.statusCode)

getRejectedList_result(callMethodResult) ==
    IF callMethodResult.statusCode = Good
    THEN IF ~HasFirst(callMethodResult.outputArguments)
         THEN Throw("TypeError")
         ELSE IF First(callMethodResult.outputArguments).dataType # "ByteString"
              THEN ReturnStatus(BadInvalidArgument)
              ELSE ReturnRecord(callMethodResult.statusCode,
                                First(callMethodResult.outputArguments).value)
    ELSE ReturnStatus(callMethodResult.statusCode)

\* variant of the interpreter that only rejects an empty or missing output list
updateCertificate_result_atLeastOne(callMethodResult) ==
    IF callMethodResult.statusCode = Good
    THEN IF ~HasFirst(callMethodResult.outputArguments)
         THEN ReturnStatus(BadInternalError)
         ELSE ReturnRecord(callMethodResult.statusCode,
                           First(callMethodResult.outputArguments).value)
    ELSE ReturnStatus(callMethodResult.statusCode)

updateCertificate_result(callMethodResult) ==
    IF callMethodResult.statusCode = Good
    THEN IF \/ ~Truthy(callMethodResult.outputArguments)
            \/ Len(callMethodResult.outputArguments.v) # 1
         THEN ReturnStatus(BadInternalError)
         ELSE ReturnRecord(callMethodResult.statusCode,
                           First(callMethodResult.outputArguments).value)
    ELSE ReturnStatus(callMethodResult.statusCode)

\* variant of the interpreter that checks the outputs of a Good answer only
applyChanges_result_goodOnly(callMethodResult) ==
    IF /\ callMethodResult.statusCode = Good
       /\ Truthy(callMethodResult.outputArguments)
       /\ Len(callMethodResult.outputArguments.v) # 0
    THEN Throw("Invalid  output arguments")
    ELSE ReturnStatus(callMethodResult.statusCode)

applyChanges_result(callMethodResult) ==
    IF /\ Truthy(callMethodResult.outputArguments)
       /\ Len(callMethodResult.outputArguments.v) # 0
    THEN Throw("Invalid  output arguments")
    ELSE ReturnStatus(callMethodResult.statusCode)

\* variant of the resolver that falls back to the default group
getCertificateGroupId_result_fallback(certificateGroupName) ==
    ReturnValue(NodeIdOf(defaultApplicationGroup))

getCertificateGroupId_result(certificateGroupName) ==
    IF certificateGroupName = "DefaultApplicationGroup"
    THEN ReturnValue(NodeIdOf(defaultApplicationGroup))
    ELSE Throw("Not Implemented yet")

\* variant in which the rejection is caught and turned into a status
await_rejected_caught(reason) == ReturnStatus(BadInternalError)

\* `await` on a rejected promise, outside any try block: the method's own
\* promise rejects with the same reason
await_rejected(reason) == Throw(reason)

(***************************************************************************)
(* The session's promise.                                                  *)
(***************************************************************************)
NoCallMethodResult == [statusCode |-> "", outputArguments |-> undefined]

NoPromise == [state |-> "none", value |-> NoCallMethodResult, reason |-> ""]

Pending == [state |-> "pending", value |-> NoCallMethodResult, reason |-> ""]

Fulfilled(callMethodResult) ==
    [state |-> "fulfilled", value |-> callMethodResult, reason |-> ""]

Rejected(reason) ==
    [state |-> "rejected", value |-> NoCallMethodResult, reason |-> reason]

\* this.session.call(methodToCall): one more call on the session
session_call(calls) == calls + 1

(***************************************************************************)
(* Inputs.                                                                 *)
(***************************************************************************)
NodeIds == {NodeIdOf(defaultApplicationGroup)}
CertificateTypes == {NodeIdOf(rsaSha256ApplicationCertificateType)}
SubjectNames == {Str("CN=a/O=b"), Str("")}
OptionalBooleans == {undefined, Bool(TRUE), Bool(FALSE)}
Nonces == {undefined, null, Buf(<< >>), Buf(<<7>>)}
Certificates == {Buf(<<1>>)}
IssuerCertificates == {Arr(<< >>), Arr(<<Buf(<<2>>)>>)}
PrivateKeyFormats == {undefined, Str(""), Str("PEM")}
PrivateKeys == {undefined, Buf(<<3>>)}
GroupNames == {"DefaultApplicationGroup", "defaultapplicationgroup",
               "DefaultUserTokenGroup", ""}

StatusCodes == {Good, BadInvalidArgument, BadInternalError, BadUserAccessDenied}

OutputVariants ==
    { VariantLike("ByteString", "Scalar", Buf(<<170, 187>>)),
      VariantLike("ByteString", "Array", Arr(<<Buf(<<4>>)>>)),
      VariantLike("Boolean", "Scalar", Bool(TRUE)),
      VariantLike("Boolean", "Scalar", Bool(FALSE)),
      VariantLike("String", "Scalar", Str("x")),
      VariantLike("Null", "Scalar", undefined) }

SeqsUpTo(S, n) == UNION {[1..k -> S] : k \in 0..n}

OutputArguments == {undefined} \cup {Arr(s) : s \in SeqsUpTo(OutputVariants, MaxOutputs)}

CallMethodResults ==
    [statusCode : StatusCodes, outputArguments : OutputArguments]

SessionErrors == {"BadConnectionClosed", "Transaction timeout"}

Methods == {"createSigningRequest", "getRejectedList", "updateCertificate", "applyChanges"}

(***************************************************************************)
(* Initial state: the client is constructed, no call is in progress.       *)
(***************************************************************************)
Init ==
    /\ pc = "idle"
    /\ op = "none"
    /\ args = << >>
    /\ methodToCall = NoMethodToCall
    /\ sessionCalls = 0
    /\ promise = NoPromise
    /\ result = NoResult

\* common part of the four methods, from their entry (pc = "idle") up to the await
Dispatch(name, arguments, request) ==
    /\ op' = name
    /\ args' = arguments
    /\ methodToCall' = request
    /\ sessionCalls' = session_call(sessionCalls)
    /\ promise' = Pending
    /\ pc' = "await"
    /\ UNCHANGED result

\* common part of the four methods, after the await has settled
Resume(completion) ==
    /\ promise.state \in {"fulfilled", "rejected"}
    /\ result' = completion
    /\ pc' = "done"
    /\ UNCHANGED <<op, args, methodToCall, sessionCalls, promise>>

createSigningRequest ==
    \E certificateGroupId \in NodeIds, certificateTypeId \in CertificateTypes,
       subjectName \in SubjectNames, regeneratePrivateKey \in OptionalBooleans,
       nonce \in Nonces :
        /\ pc = "idle"
        /\ Dispatch("createSigningRequest",
                 <<certificateGroupId, certificateTypeId, subjectName,
                   regeneratePrivateKey, nonce>>,
                 CallMethodRequestLike(
                     createSigningRequest_inputArguments(
                         certificateGroupId, certificateTypeId, subjectName,
                         regeneratePrivateKey, nonce),
                     createSigningRequestMethod, serverConfigurationNodeId))

createSigningRequest_resume ==
    /\ pc = "await" /\ op = "createSigningRequest"
    /\ Resume(IF promise.state = "rejected"
              THEN await_rejected(promise.reason)
              ELSE createSigningRequest_result(promise.value))

getRejectedList ==
    /\ pc = "idle"
    /\ Dispatch("getRejectedList", << >>,
             CallMethodRequestLike(getRejectedList_inputArguments,
                                   getRejectedListMethod, serverConfigurationNodeId))

getRejectedList_resume ==
    /\ pc = "await" /\ op = "getRejectedList"
    /\ Resume(IF promise.state = "rejected"
              THEN await_rejected(promise.reason)
              ELSE getRejectedList_result(promise.value))

updateCertificate ==
    \E certificateGroupId \in NodeIds, certificateTypeId \in CertificateTypes,
       certificate \in Certificates, issuerCertificates \in IssuerCertificates,
       privateKeyFormat \in PrivateKeyFormats, privateKey \in PrivateKeys :
        /\ pc = "idle"
        /\ Dispatch("updateCertificate",
                 <<certificateGroupId, certificateTypeId, certificate,
                   issuerCertificates, privateKeyFormat, privateKey>>,
                 CallMethodRequestLike(
                     updateCertificate_inputArguments(
                         certificateGroupId, certificateTypeId, certificate,
                         issuerCertificates, privateKeyFormat, privateKey),
                     updateCertificateMethod, serverConfigurationNodeId))

updateCertificate_resume ==
    /\ pc = "await" /\ op = "updateCertificate"
    /\ Resume(IF promise.state = "rejected"
              THEN await_rejected(promise.reason)
              ELSE updateCertificate_result(promise.value))

applyChanges ==
    /\ pc = "idle"
    /\ Dispatch("applyChanges", << >>,
             CallMethodRequestLike(applyChanges_inputArguments,
                                   applyChangesMethod, serverConfigurationNodeId))

applyChanges_resume ==
    /\ pc = "await" /\ op = "applyChanges"
    /\ Resume(IF promise.state = "rejected"
              THEN await_rejected(promise.reason)
              ELSE applyChanges_result(promise.value))

\* no await in this method: it completes in one step and never touches the session
getCertificateGroupId ==
    \E certificateGroupName \in GroupNames :
        /\ pc = "idle"
        /\ op' = "getCertificateGroupId"
        /\ args' = <<Str(certificateGroupName)>>
        /\ result' = getCertificateGroupId_result(certificateGroupName)
        /\ pc' = "done"
        /\ UNCHANGED <<methodToCall, sessionCalls, promise>>

\* the session fulfils the pending promise with a CallMethodResult
session_call_fulfilled ==
    \E callMethodResult \in CallMethodResults :
        /\ pc = "await"
        /\ promise.state = "pending"
        /\ promise' = Fulfilled(callMethodResult)
        /\ UNCHANGED <<pc, op, args, methodToCall, sessionCalls, result>>

\* the session's call fails: the pending promise is rejected
session_call_rejected ==
    \E reason \in SessionErrors :
        /\ pc = "await"
        /\ promise.state = "pending"
        /\ promise' = Rejected(reason)
        /\ UNCHANGED <<pc, op, args, methodToCall, sessionCalls, result>>

\* the caller has its completion and is free to make the next call
caller_next ==
    /\ pc = "done"
    /\ pc' = "idle"
    /\ op' = "none"
    /\ args' = << >>
    /\ methodToCall' = NoMethodToCall
    /\ sessionCalls' = 0
    /\ promise' = NoPromise
    /\ result' = NoResult

Next ==
    \/ createSigningRequest
    \/ createSigningRequest_resume
    \/ getRejectedList
    \/ getRejectedList_resume
    \/ updateCertificate
    \/ updateCertificate_resume
    \/ applyChanges
    \/ applyChanges_resume
    \/ getCertificateGroupId
    \/ session_call_fulfilled
    \/ session_call_rejected
    \/ caller_next

Spec == Init /\ [][Next]_vars

(***************************************************************************)
(* Properties.                                                             *)
(***************************************************************************)
Done(name) == pc = "done" /\ op = name

\* the session answered the current call with a CallMethodResult
Answered == promise.state = "fulfilled"

outputArguments == promise.value.outputArguments

NonEmptyOutputs == outputArguments.t = "Array" /\ Len(outputArguments.v) > 0

\* C1: in every Invocation of updateCertificate the private-key-format argument
\* (position 5) and the private-key argument (position 6) are either both
\* supplied with a value (a String and a ByteString) or both Null.
C1_FormatAndKeyLinked ==
    (op = "updateCertificate" /\ pc # "idle") =>
        LET a == methodToCall.inputArguments IN
        \/ /\ a[5].dataType = "String" /\ a[5].value.t = "string"
           /\ a[6].dataType = "ByteString" /\ a[6].value.t = "Buffer"
        \/ /\ a[5].dataType = "Null" /\ a[5].value.t = "undefined"
           /\ a[6].dataType = "Null" /\ a[6].value.t = "undefined"

\* C2: getRejectedList answered with Good and a first output value that is not
\* an array of ByteString returns BadInvalidArgument and no certificates.
C2_NotByteStringArrayIsInvalidArgument ==
    ( /\ Done("getRejectedList") /\ Answered
      /\ promise.value.statusCode = Good
      /\ NonEmptyOutputs
      /\ ~ ( /\ outputArguments.v[1].dataType = "ByteString"
             /\ outputArguments.v[1].arrayType = "Array" ) )
    => ( /\ result.kind = "return"
         /\ result.statusCode = BadInvalidArgument
         /\ ~result.hasField )

\* C3 (as stated): for all four methods, a session answer with a status other
\* than Good is returned to the caller as that same status and no error is
\* raised, whatever output values the answer carries.
C3_BadStatusReturnedByAll ==
    (pc = "done" /\ op \in Methods /\ Answered /\ promise.value.statusCode # Good)
    => (result.kind = "return" /\ result.statusCode = promise.value.statusCode)

\* C3 (amended): a session answer with a status other than Good is returned
\* as that same status, with no error raised, by createSigningRequest,
\* getRejectedList and updateCertificate whatever the output values, and by
\* applyChanges when the answer carries no output value; applyChanges raises
\* an error when the answer carries output values.
C3_BadStatusReturned ==
    (pc = "done" /\ op \in Methods /\ Answered /\ promise.value.statusCode # Good)
    => IF op = "applyChanges" /\ NonEmptyOutputs
       THEN result.kind = "throw"
       ELSE result.kind = "return" /\ result.statusCode = promise.value.statusCode

C3_Witness ==
    /\ Done("createSigningRequest") /\ Answered
    /\ promise.value.statusCode = BadUserAccessDenied
    /\ NonEmptyOutputs
    /\ result.kind = "return" /\ result.statusCode = BadUserAccessDenied

\* C4: applyChanges raises an error exactly when the session's answer carries
\* a non-empty output sequence, whatever its status; otherwise it returns the
\* session's status unchanged.
C4_ApplyChangesThrowsIffOutputs ==
    (Done("applyChanges") /\ Answered) =>
        /\ (result.kind = "throw") <=> NonEmptyOutputs
        /\ ~NonEmptyOutputs =>
              /\ result.kind = "return"
              /\ result.statusCode = promise.value.statusCode

C4_Witness ==
    /\ Done("applyChanges") /\ Answered
    /\ promise.value.statusCode = BadUserAccessDenied
    /\ NonEmptyOutputs
    /\ result.kind = "throw"

\* C5: updateCertificate answered with Good and an output sequence that is
\* missing or whose length is not 1 returns BadInternalError without
\* applyChangeRequired, and raises no error.
C5_WrongOutputCountIsInternalError ==
    ( /\ Done("updateCertificate") /\ Answered
      /\ promise.value.statusCode = Good
      /\ (outputArguments.t # "Array" \/ Len(outputArguments.v) # 1) )
    => ( /\ result.kind = "return"
         /\ result.statusCode = BadInternalError
         /\ ~result.hasField )

C5_Witness ==
    /\ Done("updateCertificate") /\ Answered
    /\ promise.value.statusCode = Good
    /\ outputArguments.t = "Array" /\ Len(outputArguments.v) = 2
    /\ result.statusCode = BadInternalError

C7_FieldOnlyOnGood ==
    (pc = "done" /\ op \in {"createSigningRequest", "getRejectedList", "updateCertificate"})
    => /\ result.hasField => (Answered /\ promise.value.statusCode = Good)
       /\ (Answered /\ promise.value.statusCode # Good) =>
              /\ ~result.hasField
              /\ result.field.t = "undefined"
              /\ result.error = ""

C7_Witness ==
    /\ Done("getRejectedList") /\ Answered
    /\ promise.value.statusCode = BadInvalidArgument
    /\ NonEmptyOutputs
    /\ outputArguments.v[1].dataType = "ByteString"
    /\ outputArguments.v[1].arrayType = "Array"
    /\ ~result.hasField

\* C8: getCertificateGroupId returns the default application group identifier
\* for the name "DefaultApplicationGroup" exactly, fails with a not-implemented
\* error and no identifier for every other name, and never calls the session.
C8_GroupResolver ==
    Done("getCertificateGroupId") =>
        /\ sessionCalls = 0 /\ promise.state = "none"
        /\ IF args[1].v = "DefaultApplicationGroup"
           THEN /\ result.kind = "return" /\ result.hasField
                /\ result.field = [t |-> "NodeId", v |-> 14156]
           ELSE /\ result.kind = "throw" /\ ~result.hasField
                /\ result.error = "Not Implemented yet"

C8_Witness ==
    /\ Done("getCertificateGroupId")
    /\ args[1].v = "defaultapplicationgroup"
    /\ result.kind = "throw"

\* C9: no method returns Good with a typed field that is not of its declared
\* kind: createSigningRequest returns Good only when the answer holds exactly
\* one ByteString output, which is the signing request; updateCertificate
\* returns Good only with a Boolean applyChangeRequired.
C9_GoodResultIsWellTyped ==
    (pc = "done" /\ result.kind = "return" /\ result.statusCode = Good) =>
        /\ op = "createSigningRequest" =>
              /\ outputArguments.t = "Array" /\ Len(outputArguments.v) = 1
              /\ outputArguments.v[1].dataType = "ByteString"
              /\ outputArguments.v[1].arrayType = "Scalar"
              /\ result.field = outputArguments.v[1].value
        /\ op = "updateCertificate" => result.field.t = "boolean"

\* C10: each call of one of the four methods calls the session exactly once,
\* before any result exists, and never again; when the session's call fails,
\* the caller gets that failure unchanged, with no status and no record.
C10_OneSessionCall ==
    /\ sessionCalls <= 1
    /\ (op \in Methods) => sessionCalls = 1
    /\ (op \in Methods /\ result.kind # "none") =>
           /\ sessionCalls = 1
           /\ promise.state \in {"fulfilled", "rejected"}
    /\ (pc = "done" /\ op \in Methods /\ promise.state = "rejected") =>
           /\ result.kind = "throw"
           /\ result.error = promise.reason
           /\ result.statusCode = "" /\ ~result.hasField

C10_Witness ==
    /\ pc = "done" /\ op = "applyChanges"
    /\ promise.state = "rejected" /\ promise.reason = "BadConnectionClosed"
    /\ result.kind = "throw" /\ result.error = "BadConnectionClosed"
    /\ sessionCalls = 1

====
